---- MODULE Spec2Model ----
(***************************************************************************)
(* Plan execution engine of the Deep-Research agent: the plan validator,   *)
(* the LangGraph controller (planner, research loop, summarizers, writing  *)
(* loop, assembler), the task executors and the citation registry.         *)
(*                                                                         *)
(* Texts are sequences of tokens (strings).  A Python dict is a function,  *)
(* a Python list a sequence, None the string "None".  A node of the graph  *)
(* is one action; the research executor is cut at its one await on the     *)
(* search collaborator, so that the task in flight is a state.  An         *)
(* exception that leaves a node is the controller state "FAULT".           *)
(***************************************************************************)
EXTENDS Integers, Sequences, FiniteSets, TLC

VARIABLES
    pc,                     \* the graph node about to run, "END", "FAULT" or "RETURNED"
    raw_plan,               \* the plan list of the planner's JSON, as emitted
    plan,                   \* AgentState.plan
    overall_outline,        \* AgentState.overall_outline
    current_plan_item_id,   \* AgentState.current_plan_item_id
    error_log,              \* AgentState.error_log
    shared_context,         \* AgentState.shared_context
    final_answer,           \* AgentState.final_answer
    final_sources,          \* AgentState.final_sources
    updated_plan,           \* the executor's working copy while a task is in flight
    index_available,        \* truth value of llama_index_service.index
    rewrites,               \* the calls of the citation rewrite: raw text, and whether it returned
    failures,               \* failed research attempts so far
    result,                 \* what search_and_generate_report returned
    search_results,         \* the records the last completed search returned
    prior_plan,             \* the plan list a node was handed, as it reads once the node has returned
    invocation,             \* which call of search_and_generate_report on the agent object this is
    agent_input,            \* the input of the last generation call of the writing executor
    index,                  \* the documents of llama_index_service.index, each with its tag
    iterations,             \* iterations of the writer agent for the chapter in flight
    tool_calls              \* the retrieval queries of the writer agent for that chapter

vars == <<pc, raw_plan, plan, overall_outline, current_plan_item_id, error_log,
          shared_context, final_answer, final_sources, updated_plan,
          index_available, rewrites, failures, result, search_results,
          prior_plan, invocation, agent_input, index, iterations,
          tool_calls>>

----------------------------------------------------------------------------
(* Bounds of the model. *)

\* items of a plan in a controller run
RunMaxItems == 2
\* records of one search, for an executor called on its own
MaxRecords == 2
\* failed attempts followed in a run of research tasks alone
MaxRetries == 2
\* calls of search_and_generate_report on one agent object
MaxRuns == 2
\* items of a plan handed to the validator alone
ValMaxItems == 2
\* dependencies of one item handed to the validator alone
ValMaxDeps == 2
\* failed research attempts in one run
MaxFailures == 1
\* pieces of a chapter text handed to the citation rewrite
MaxPieces == 3
\* calls of the citation rewrite in one run (a plan with a repeated id is written
\* again and again)
MaxWrites == 3

\* items of a plan in the runs of the summarizer
SumMaxItems == 3

\* tool calls the writer agent can ask for in one iteration
MaxParallel == 2

\* AgentExecutor(max_iterations=7)
MaxIterations == 7

None == "None"
NoneText == <<"None">>
EmptyText == <<>>

\* "" stands for an item_id the planner left out or left empty (both falsy)
ItemIds == {"", "r1", "w1"}
DepIds == {"r1", "w1", "ghost"}
\* dependency lists of a WRITING item in a controller run; an item of either type may
\* be named r1, so that a dependency r1 can name a RESEARCH item, a WRITING item or
\* the item itself
RunDeps == {<<>>, <<"r1">>, <<"r1", "ghost">>}

SeqsUpTo(S, n) == UNION {[1..k -> S] : k \in 0..n}

Truthy(v) == v # None /\ v # ""

----------------------------------------------------------------------------
(* Plans the planner can emit. *)

RawItem(ids, types, deps) == [item_id : ids, task_type : types, dependencies : deps]

\* controller runs: RESEARCH items carry no dependencies, as the prompt asks
RunRawItems ==
    RawItem(ItemIds, {"RESEARCH"}, {<<>>})
        \cup RawItem(ItemIds, {"WRITING"}, RunDeps)

RunRawPlans == SeqsUpTo(RunRawItems, RunMaxItems)

\* validator alone: any task_type, items that are not WRITING with a dependency too,
\* and WRITING items named w1 that depend on r1, on w1 (themselves) and on ghost
ValRawItems ==
    RawItem({"r1", "w1"}, {"RESEARCH", "OTHER"}, {<<>>, <<"ghost">>})
        \cup RawItem({"w1"}, {"WRITING"}, SeqsUpTo(DepIds, ValMaxDeps))

ValRawPlans == SeqsUpTo(ValRawItems, ValMaxItems)

Desc(i) == <<"description", ToString(i)>>

\* call_planner, lines 81-86
CompleteItemData(P) ==
    [i \in DOMAIN P |->
        [item_id |-> P[i].item_id, task_type |-> P[i].task_type,
         description |-> Desc(i), dependencies |-> P[i].dependencies,
         status |-> "pending", content |-> EmptyText, execution_log |-> <<>>,
         attempt_count |-> 0]]

----------------------------------------------------------------------------
(* PlanValidator *)

ResearchTaskIds(p) == {p[i].item_id : i \in {j \in DOMAIN p : p[j].task_type = "RESEARCH"}}

AllTaskIds(p) == {p[i].item_id : i \in DOMAIN p}

MissingError(dep) == [kind |-> "missing", task |-> None, dep |-> dep]

NotResearchError(id, dep) == [kind |-> "not_research", task |-> id, dep |-> dep]

\* a validator whose loop ends at the first bad dependency (break for continue)
MutDepErrors(deps, id, all, research) ==
    LET bad == {k \in DOMAIN deps : deps[k] \notin all \/ deps[k] \notin research}
        first == CHOOSE k \in bad : \A j \in bad : k <= j
    IN  IF bad = {} THEN <<>>
        ELSE IF deps[first] \notin all THEN <<MissingError(deps[first])>>
        ELSE <<NotResearchError(id, deps[first])>>

RECURSIVE DepErrors(_, _, _, _)
DepErrors(deps, id, all, research) ==
    IF deps = <<>> THEN <<>>
    ELSE LET d == Head(deps)
             e == IF d \notin all THEN <<MissingError(d)>>
                  ELSE IF d \notin research THEN <<NotResearchError(id, d)>>
                  ELSE <<>>
         IN  e \o DepErrors(Tail(deps), id, all, research)

RECURSIVE PlanErrors(_, _, _, _)
PlanErrors(p, i, all, research) ==
    IF i > Len(p) THEN <<>>
    ELSE (IF p[i].task_type = "WRITING"
          THEN DepErrors(p[i].dependencies, p[i].item_id, all, research)
          ELSE <<>>) \o PlanErrors(p, i + 1, all, research)

RemoveFirst(seq, k) == SubSeq(seq, 1, k - 1) \o SubSeq(seq, k + 1, Len(seq))

\* a validator that removes a bad dependency from the list it iterates over, so that
\* the dependency after a removed one is skipped
RECURSIVE RemoveInLoop(_, _, _)
RemoveInLoop(deps, k, good) ==
    IF k > Len(deps) THEN deps
    ELSE IF deps[k] \in good THEN RemoveInLoop(deps, k + 1, good)
    ELSE RemoveInLoop(
             RemoveFirst(deps, CHOOSE f \in DOMAIN deps :
                                   /\ deps[f] = deps[k]
                                   /\ \A g \in DOMAIN deps : deps[g] = deps[k] => f <= g),
             k + 1, good)

MutCorrectedDeps(deps, all, research) == RemoveInLoop(deps, 1, all \cap research)

CorrectedDeps(deps, all, research) ==
    LET Keep(d) == d \in all /\ d \in research
    IN  SelectSeq(deps, Keep)

\* a validator that only checks that the dependency exists
MutValidateAndCorrectPlan(p) ==
    LET all == AllTaskIds(p)
    IN  [plan |-> [i \in DOMAIN p |->
                      IF p[i].task_type = "WRITING"
                      THEN [p[i] EXCEPT !.dependencies = CorrectedDeps(@, all, all)]
                      ELSE p[i]],
         errors |-> PlanErrors(p, 1, all, all)]

ValidateAndCorrectPlan(p) ==
    LET research == ResearchTaskIds(p)
        all == AllTaskIds(p)
    IN  [plan |-> [i \in DOMAIN p |->
                      IF p[i].task_type = "WRITING"
                      THEN [p[i] EXCEPT !.dependencies = CorrectedDeps(@, all, research)]
                      ELSE p[i]],
         errors |-> PlanErrors(p, 1, all, research)]

----------------------------------------------------------------------------
(* Error log entries: {"node": ..., "error": ...} or {"node": ..., "errors": [...]} *)

ErrorEntry(node, error) == [node |-> node, error |-> error, errors |-> <<>>]

ValidatorEntry(errors) == [node |-> "planner_validator", error |-> None, errors |-> errors]

----------------------------------------------------------------------------
(* The state after DeepSearchAgent.search_and_generate_report built initial_state. *)

EmptyRegistry == [citations |-> <<>>, next_citation_number |-> 1]

\* no generation call has been made
NoInput == <<>>

NoResult ==
    [returned |-> FALSE, success |-> FALSE, report |-> <<>>, sources |-> <<>>,
     outline |-> <<>>, plan |-> <<>>, errors |-> <<>>]

Init ==
    /\ pc = "planner"
    /\ raw_plan = <<>>
    /\ plan = <<>>
    /\ overall_outline = NoneText
    /\ current_plan_item_id = None
    /\ error_log = <<>>
    /\ shared_context = EmptyRegistry
    /\ final_answer = EmptyText
    /\ final_sources = <<>>
    /\ updated_plan = <<>>
    /\ index_available \in BOOLEAN
    /\ rewrites = <<>>
    /\ failures = 0
    /\ result = NoResult
    /\ search_results = <<>>
    /\ prior_plan = <<>>
    /\ invocation = 1
    /\ agent_input = NoInput
    /\ index = {}
    /\ iterations = 0
    /\ tool_calls = <<>>

----------------------------------------------------------------------------
(* Node 1: planner *)

\* the planner answered with a JSON object; its plan list is P
CallPlanner(RawSet) ==
    /\ pc = "planner"
    /\ \E P \in RawSet :
        LET v == ValidateAndCorrectPlan(CompleteItemData(P))
            \* error_log is the list of the state, appended to in place ...
            log == IF v.errors # <<>>
                   THEN Append(error_log, ValidatorEntry(v.errors))
                   ELSE error_log
        IN  /\ raw_plan' = P
            /\ plan' = v.plan
            \* the validator wrote the corrected dependencies into the items it was given
            /\ prior_plan' = v.plan
            \* ... and returned: the operator.add reducer adds it to itself
            /\ error_log' = log \o log
    /\ overall_outline' = <<"outline_of_planner">>
    /\ pc' = "research_supervisor"
    /\ UNCHANGED <<current_plan_item_id, shared_context, final_answer, final_sources,
                   updated_plan, index_available, rewrites, failures, result,
                   search_results,
                   invocation, agent_input,
                   index, iterations, tool_calls>>

Planner == CallPlanner(RunRawPlans)

CannotParsePlan == ErrorEntry("planner", "cannot_parse_plan")

\* an except branch that appends to the list of the state and returns that list
MutPlannerBadJson ==
    /\ pc = "planner"
    /\ raw_plan' = <<>>
    /\ plan' = <<>>
    /\ overall_outline' = EmptyText
    /\ error_log' = Append(error_log, CannotParsePlan) \o Append(error_log, CannotParsePlan)
    /\ pc' = "research_supervisor"
    /\ UNCHANGED <<current_plan_item_id, shared_context, final_answer, final_sources,
                   updated_plan, index_available, rewrites, failures, result,
                   search_results, prior_plan,
                   invocation, agent_input,
                   index, iterations, tool_calls>>

\* json.loads raised JSONDecodeError
PlannerBadJson ==
    /\ pc = "planner"
    /\ raw_plan' = <<>>
    /\ plan' = <<>>
    /\ overall_outline' = EmptyText
    /\ error_log' = error_log \o <<CannotParsePlan>>
    /\ pc' = "research_supervisor"
    /\ UNCHANGED <<current_plan_item_id, shared_context, final_answer, final_sources,
                   updated_plan, index_available, rewrites, failures, result,
                   search_results, prior_plan,
                   invocation, agent_input,
                   index, iterations, tool_calls>>

\* an exception left the node `node`: no other state variable is returned
Fault(node) ==
    /\ pc = node
    /\ pc' = "FAULT"
    /\ UNCHANGED <<raw_plan, plan, overall_outline, current_plan_item_id, error_log,
                   shared_context, final_answer, final_sources, updated_plan,
                   index_available, rewrites, failures, result,
                   search_results, prior_plan,
                   invocation, agent_input,
                   index, iterations, tool_calls>>

\* llm.ainvoke raised, or the output parsed to something that is not an object with
\* a plan list (AttributeError, TypeError: not caught by the JSONDecodeError clause)
PlannerFault == Fault("planner")

----------------------------------------------------------------------------
(* Supervisors and routing *)

\* a supervisor that gives up on a failed task
MutNextPending(p, type) ==
    LET open == {i \in DOMAIN p :
                    p[i].task_type = type /\ p[i].status \notin {"completed", "failed"}}
    IN  IF open = {} THEN 0 ELSE CHOOSE i \in open : \A j \in open : i <= j

\* a supervisor that takes the last open task of the plan
MutNextTask(p, type) ==
    LET open == {i \in DOMAIN p : p[i].task_type = type /\ p[i].status # "completed"}
    IN  IF open = {} THEN 0 ELSE CHOOSE i \in open : \A j \in open : i >= j

\* next((task for task in plan if task_type == type and status != "completed"), None),
\* as an index of the plan; 0 is None
NextTask(p, type) ==
    LET open == {i \in DOMAIN p : p[i].task_type = type /\ p[i].status # "completed"}
    IN  IF open = {} THEN 0 ELSE CHOOSE i \in open : \A j \in open : i <= j

SupervisorDecision(p, type) ==
    IF NextTask(p, type) = 0 THEN None ELSE p[NextTask(p, type)].item_id

\* a router that leaves the research loop for the overall summary
MutRouteResearchAction(id) ==
    IF Truthy(id) THEN "research_executor" ELSE "generate_overall_summary"

RouteResearchAction(id) == IF Truthy(id) THEN "research_executor" ELSE "plan_summarizer"

RouteWritingAction(id) == IF Truthy(id) THEN "writing_executor" ELSE "final_assembler"

\* Node 2 and its conditional edge
ResearchSupervisor ==
    /\ pc = "research_supervisor"
    /\ current_plan_item_id' = SupervisorDecision(plan, "RESEARCH")
    /\ pc' = RouteResearchAction(current_plan_item_id')
    /\ UNCHANGED <<raw_plan, plan, overall_outline, error_log, shared_context,
                   final_answer, final_sources, updated_plan, index_available,
                   rewrites, failures, result,
                   search_results, prior_plan,
                   invocation, agent_input,
                   index, iterations, tool_calls>>

\* Node 4 and its conditional edge
WritingSupervisor ==
    /\ pc = "writing_supervisor"
    /\ current_plan_item_id' = SupervisorDecision(plan, "WRITING")
    /\ pc' = RouteWritingAction(current_plan_item_id')
    /\ UNCHANGED <<raw_plan, plan, overall_outline, error_log, shared_context,
                   final_answer, final_sources, updated_plan, index_available,
                   rewrites, failures, result,
                   search_results, prior_plan,
                   invocation, agent_input,
                   index, iterations, tool_calls>>

\* _find_plan_item: the index of the first item with that id; 0 is (None, -1)
FindPlanItem(p, id) ==
    LET hits == {i \in DOMAIN p : p[i].item_id = id}
    IN  IF hits = {} THEN 0 ELSE CHOOSE i \in hits : \A j \in hits : i <= j

----------------------------------------------------------------------------
(* Research executor *)

SearchRecord(url, snippet) == [url |-> url, title |-> "title", snippet |-> snippet]

\* what search_tool.invoke can return
SearchResults ==
    { <<>>,
      <<SearchRecord("a", ""), SearchRecord("b", "snippet_b")>> }

SnippetBlock(res) == <<"source:", res.url, "title:", res.title, "snippet:", res.snippet>>

RECURSIVE Join(_, _)
Join(blocks, sep) ==
    IF blocks = <<>> THEN <<>>
    ELSE IF Len(blocks) = 1 THEN blocks[1]
    ELSE blocks[1] \o sep \o Join(Tail(blocks), sep)

HasSnippet(res) == res.snippet # ""

\* blocks for every record, with or without a snippet
MutSnippets(results) == [i \in DOMAIN results |-> SnippetBlock(results[i])]

\* lines 57-58
Snippets(results) ==
    LET kept == SelectSeq(results, HasSnippet)
    IN  [i \in DOMAIN kept |-> SnippetBlock(kept[i])]

NoInformation == <<"no_information_found">>

Delimiter == <<"---">>

RawContent(results) ==
    IF Snippets(results) = <<>> THEN NoInformation ELSE Join(Snippets(results), Delimiter)

\* an item may be executed again while its log is short enough (a bound of the model)
MaxLogLen == 2 * (MaxFailures + 2)

\* an executor that marks every research item of its copy
MutMarkInProgress(p, idx) ==
    [i \in DOMAIN p |->
        IF p[i].task_type = "RESEARCH" THEN [p[i] EXCEPT !.status = "in_progress"] ELSE p[i]]

\* an executor that moves the current item to the head of its copy
MutMarkMovedFirst(p, idx) ==
    <<[p[idx] EXCEPT !.status = "in_progress"]>>
        \o SubSeq(p, 1, idx - 1) \o SubSeq(p, idx + 1, Len(p))

\* lines 41-43: the copy of the plan, with the current item in progress
MarkInProgress(p, idx) == [p EXCEPT ![idx].status = "in_progress"]

\* lines 22-43: up to the await on the search collaborator
ResearchExecutorBegin ==
    /\ pc = "research_executor"
    /\ LET idx == FindPlanItem(plan, current_plan_item_id)
       IN  IF ~Truthy(current_plan_item_id)
           THEN /\ error_log' = error_log \o
                        <<ErrorEntry("execute_research_task", "current_plan_item_id_missing")>>
                /\ pc' = "research_supervisor"
                /\ UNCHANGED updated_plan
           ELSE IF idx = 0
           THEN /\ error_log' = error_log \o
                        <<ErrorEntry("execute_research_task", "item_not_found")>>
                /\ pc' = "research_supervisor"
                /\ UNCHANGED updated_plan
           ELSE /\ Len(plan[idx].execution_log) < MaxLogLen
                /\ updated_plan' = MarkInProgress(plan, idx)
                /\ pc' = "research_search"
                /\ UNCHANGED error_log
    /\ UNCHANGED <<raw_plan, plan, overall_outline, current_plan_item_id, shared_context,
                   final_answer, final_sources, index_available, rewrites,
                   failures, result,
                   search_results, prior_plan,
                   invocation, agent_input,
                   index, iterations, tool_calls>>

\* the item the executor in flight works on
InFlight == FindPlanItem(updated_plan, current_plan_item_id)

\* line 41: p.copy() copies the item and not its lists, so the item handed in reads
\* the log lines appended to the copy
SharedLog(before, after, i) ==
    [before EXCEPT ![i].execution_log = after[i].execution_log]

\* lines 45-73: the search returned one of Results, the records are indexed and stored
\* the document of a search record: its url and the metadata handed in
Document(res, id) == [url |-> res.url, research_task_id |-> id]

\* an indexing that tags nothing
MutAddSearchResultsToIndex(docs, results, id, available) ==
    IF available
    THEN docs \cup {Document(results[k], None) : k \in DOMAIN results}
    ELSE docs

\* add_search_results_to_index with metadata {"research_task_id": id}: every record
\* becomes a document; without an index insert_nodes raises and the except branch
\* swallows it
AddSearchResultsToIndex(docs, results, id, available) ==
    IF available
    THEN docs \cup {Document(results[k], id) : k \in DOMAIN results}
    ELSE docs

ResearchSucceeds(Results) ==
    /\ pc = "research_search"
    /\ \E results \in Results :
        /\ search_results' = results
        /\ index' = AddSearchResultsToIndex(index, results, current_plan_item_id,
                                            index_available)
        /\ plan' = [updated_plan EXCEPT
                       ![InFlight].execution_log =
                           @ \o <<"search_done", "research_done">>,
                       ![InFlight].content = RawContent(results),
                       ![InFlight].status = "completed"]
    /\ prior_plan' = SharedLog(plan, plan', InFlight)
    /\ updated_plan' = <<>>
    /\ pc' = "research_supervisor"
    /\ UNCHANGED <<raw_plan, overall_outline, current_plan_item_id, error_log,
                   shared_context, final_answer, final_sources, index_available,
                   rewrites, failures, result,
                   invocation, agent_input,
                   iterations, tool_calls>>

ResearchExecutorSucceeds == ResearchSucceeds(SearchResults)

\* an except branch that marks the item and writes no log line
MutFailedItem(item, searched) ==
    [item EXCEPT !.execution_log = @ \o (IF searched THEN <<"search_done">> ELSE <<>>),
                 !.status = "failed"]

\* lines 48 and 78-79: the item after the except branch; the search line is there
\* when the exception came after the search
FailedItem(item, searched) ==
    [item EXCEPT !.execution_log = @ \o (IF searched THEN <<"search_done">> ELSE <<>>)
                                     \o <<"research_error">>,
                 !.status = "failed"]

\* lines 75-83: an exception in the search step, or after it; the model follows a run
\* up to `cap` failures
ResearchFails(cap) ==
    /\ pc = "research_search"
    /\ failures < cap
    /\ \E searched \in BOOLEAN :
        plan' = [updated_plan EXCEPT ![InFlight] = FailedItem(@, searched)]
    /\ prior_plan' = SharedLog(plan, plan', InFlight)
    /\ error_log' = error_log \o <<ErrorEntry("execute_research_task", "exception")>>
    /\ failures' = failures + 1
    /\ updated_plan' = <<>>
    /\ pc' = "research_supervisor"
    /\ UNCHANGED <<raw_plan, overall_outline, current_plan_item_id, shared_context,
                   final_answer, final_sources, index_available, rewrites, result,
                   search_results,
                   invocation, agent_input,
                   index, iterations, tool_calls>>

ResearchExecutorFails == ResearchFails(MaxFailures)

----------------------------------------------------------------------------
(* Node 3: plan summarizer, and node 3.5: overall summary *)

\* what the text-generation collaborator answers to a prompt: a text of that prompt
Llm(kind, prompt) == <<kind, "(">> \o prompt \o <<")">>

DescriptionOf(p, id) == IF FindPlanItem(p, id) = 0 THEN EmptyText ELSE p[FindPlanItem(p, id)].description

ContentOf(p, id) == IF FindPlanItem(p, id) = 0 THEN EmptyText ELSE p[FindPlanItem(p, id)].content

\* lines 127-129: one text per dependency, never empty
ResearchContent(p, deps) ==
    [k \in DOMAIN deps |->
        <<"research_task">> \o DescriptionOf(p, deps[k]) \o <<":">> \o ContentOf(p, deps[k])]

NoMaterialStub(item) == <<"no_relevant_material_for">> \o item.description

\* lines 125-136 for the item at i, on the list the loop mutates
SummarizeItem(p, i) ==
    IF p[i].task_type # "WRITING" THEN p
    ELSE IF \A k \in DOMAIN p[i].dependencies : ResearchContent(p, p[i].dependencies)[k] = <<>>
    THEN [p EXCEPT ![i].content = NoMaterialStub(p[i])]
    ELSE [p EXCEPT ![i].content =
              Llm("summary", p[i].description
                             \o Join(ResearchContent(p, p[i].dependencies), <<"nn">>))]

RECURSIVE SummarizeFrom(_, _)
SummarizeFrom(p, i) ==
    IF i > Len(p) THEN p ELSE SummarizeFrom(SummarizeItem(p, i), i + 1)

PlanSummarizer ==
    /\ pc = "plan_summarizer"
    /\ plan' = SummarizeFrom(plan, 1)
    \* line 123: list(plan) holds the items of plan, the content is written into them
    /\ prior_plan' = plan'
    /\ pc' = "generate_overall_summary"
    /\ UNCHANGED <<raw_plan, overall_outline, current_plan_item_id, error_log,
                   shared_context, final_answer, final_sources, updated_plan,
                   index_available, rewrites, failures, result,
                   search_results,
                   invocation, agent_input,
                   index, iterations, tool_calls>>

\* llm.ainvoke raised in the plan summarizer
PlanSummarizerFault ==
    /\ \E i \in DOMAIN plan : plan[i].task_type = "WRITING" /\ plan[i].dependencies # <<>>
    /\ Fault("plan_summarizer")

WritingTasks(p) == SelectSeq(p, LAMBDA t : t.task_type = "WRITING")

\* lines 123-125 of writing_executor.py and 145-147 of deepsearch_graph.py
ChapterSummaries(p) ==
    Join([k \in DOMAIN WritingTasks(p) |->
             <<"chapter_goal">> \o WritingTasks(p)[k].description
                 \o <<"summary">> \o WritingTasks(p)[k].content],
         Delimiter)

GenerateOverallSummary ==
    /\ pc = "generate_overall_summary"
    /\ overall_outline' =
           IF WritingTasks(plan) = <<>> THEN overall_outline
           ELSE Llm("overall", ChapterSummaries(plan))
    /\ pc' = "writing_supervisor"
    /\ UNCHANGED <<raw_plan, plan, current_plan_item_id, error_log, shared_context,
                   final_answer, final_sources, updated_plan, index_available,
                   rewrites, failures, result,
                   search_results, prior_plan,
                   invocation, agent_input,
                   index, iterations, tool_calls>>

\* llm.ainvoke raised in the overall summary
GenerateOverallSummaryFault ==
    /\ WritingTasks(plan) # <<>>
    /\ Fault("generate_overall_summary")

----------------------------------------------------------------------------
(* CitationRegistry: the rewrite of [ref:<url>] markers *)

Marker(u) == <<"[ref:", "http://", u, "]">>

\* [^\s\]]
UrlToken(t) == t # " " /\ t # "]"

\* the length of the longest run of UrlToken tokens of text from position i
RECURSIVE UrlRun(_, _)
UrlRun(text, i) ==
    IF i > Len(text) \/ ~UrlToken(text[i]) THEN 0 ELSE 1 + UrlRun(text, i + 1)

\* \[ref:(https?://[^\s\]]+)\] at position i: the number of tokens matched, 0 for none
MatchAt(text, i) ==
    IF i + 1 <= Len(text) /\ text[i] = "[ref:" /\ text[i + 1] = "http://"
    THEN LET n == UrlRun(text, i + 2)
         IN  IF n >= 1 /\ i + 2 + n <= Len(text) /\ text[i + 2 + n] = "]"
             THEN n + 3 ELSE 0
    ELSE 0

\* match.group(1) of the match at position i
MatchedUrl(text, i) == SubSeq(text, i + 1, i + MatchAt(text, i) - 2)

UnknownTitle == "unknown_title"

Citation(number, url) == <<"[", ToString(number), "]", "(">> \o url \o <<")">>

\* get_document_by_source_url: None without an index, else a dict that holds the
\* title under the key "metadata"
GetDocumentBySourceUrl(url, available) ==
    IF available
    THEN [none |-> FALSE,
          metadata |-> [title |-> "search_result", url |-> url, source |-> "web"]]
    ELSE [none |-> TRUE]

\* citation_pattern.sub(replace_and_update_map, raw_content) from position i on:
\* out is the text written so far, cites and next the registry.  The title lookup of
\* a new url raises AttributeError when the index service answers with its dict.
\* a rewrite that advances the counter at every marker, registered or not
RECURSIVE MutSubFrom(_, _, _, _, _, _)
MutSubFrom(text, i, out, cites, next, available) ==
    IF i > Len(text) THEN [ok |-> TRUE, text |-> out, citations |-> cites, next |-> next]
    ELSE IF MatchAt(text, i) = 0
    THEN MutSubFrom(text, i + 1, Append(out, text[i]), cites, next, available)
    ELSE LET url == MatchedUrl(text, i)
         IN  IF url \in DOMAIN cites
             THEN MutSubFrom(text, i + MatchAt(text, i),
                             out \o Citation(cites[url].number, url), cites, next + 1,
                             available)
             ELSE IF available
             THEN [ok |-> FALSE, text |-> out, citations |-> cites, next |-> next]
             ELSE MutSubFrom(text, i + MatchAt(text, i),
                             out \o Citation(next, url),
                             cites @@ (url :> [number |-> next, title |-> UnknownTitle,
                                               url |-> url]),
                             next + 1, available)

RECURSIVE SubFrom(_, _, _, _, _, _)
SubFrom(text, i, out, cites, next, available) ==
    IF i > Len(text) THEN [ok |-> TRUE, text |-> out, citations |-> cites, next |-> next]
    ELSE IF MatchAt(text, i) = 0
    THEN SubFrom(text, i + 1, Append(out, text[i]), cites, next, available)
    ELSE LET url == MatchedUrl(text, i)
         IN  IF url \in DOMAIN cites
             THEN SubFrom(text, i + MatchAt(text, i),
                          out \o Citation(cites[url].number, url), cites, next, available)
             \* line 71: source_node.metadata of a dict raises AttributeError
             ELSE IF ~GetDocumentBySourceUrl(url, available).none
             THEN [ok |-> FALSE, text |-> out, citations |-> cites, next |-> next]
             ELSE SubFrom(text, i + MatchAt(text, i),
                          out \o Citation(next, url),
                          cites @@ (url :> [number |-> next, title |-> UnknownTitle,
                                            url |-> url]),
                          next + 1, available)

ProcessCitations(raw_content, context, available) ==
    SubFrom(raw_content, 1, <<>>, context.citations, context.next_citation_number, available)

----------------------------------------------------------------------------
(* Writing executor *)

\* chapter texts the writer agent returns in a controller run
RunTexts == { <<"text">>, Marker("b") \o <<" ">> \o Marker("a") }

\* a rewrite that leaves the counter of the state as it was (line 89 left out)
MutUpdatedContext(context, done) ==
    [citations |-> done.citations, next_citation_number |-> context.next_citation_number]

\* lines 88-89: the registry and its counter go back into shared_context
UpdatedContext(context, done) ==
    [citations |-> done.citations, next_citation_number |-> done.next]

Rewrite(raw_content, ok) == [raw |-> raw_content, ok |-> ok]

\* line 127
FirstChapterPlaceholder == <<"this_is_the_first_chapter">>

\* lines 128-129: the place of the current id among the WRITING items; 0 is -1
CurrentWritingTaskIndex(p, id) ==
    LET tasks == WritingTasks(p)
        hits == {k \in DOMAIN tasks : tasks[k].item_id = id}
    IN  IF hits = {} THEN 0 ELSE CHOOSE k \in hits : \A j \in hits : k <= j

\* a writer that hands on the content of the chapter before whatever its status
MutPreviousChapterContent(p, id) ==
    LET tasks == WritingTasks(p)
        k == CurrentWritingTaskIndex(p, id)
    IN  IF k > 1 THEN ContentOf(p, tasks[k - 1].item_id) ELSE ContentOf(p, id)

\* lines 127-135
PreviousChapterContent(p, id) ==
    LET tasks == WritingTasks(p)
        k == CurrentWritingTaskIndex(p, id)
        prev == IF k > 1 THEN FindPlanItem(p, tasks[k - 1].item_id) ELSE 0
    IN  IF prev # 0 /\ p[prev].status = "completed"
        THEN p[prev].content
        ELSE FirstChapterPlaceholder

\* lines 137-144: what the writer agent is given
AgentInput(p, idx, id, outline) ==
    [input |-> <<"query">>,
     task_description |-> p[idx].description,
     overall_outline |-> outline,
     all_chapter_summaries |-> ChapterSummaries(p),
     previous_chapter_content |-> PreviousChapterContent(p, id),
     revision_notes |-> EmptyText]

ExecuteWritingTask(Texts) ==
    /\ pc = "writing_executor"
    /\ Len(rewrites) < MaxWrites
    /\ LET idx == FindPlanItem(plan, current_plan_item_id)
       IN  IF ~Truthy(current_plan_item_id) \/ idx = 0
           THEN /\ pc' = "FAULT"
                /\ UNCHANGED <<plan, shared_context, rewrites, prior_plan, agent_input>>
           ELSE /\ agent_input' = AgentInput(plan, idx, current_plan_item_id, overall_outline)
                /\ \E raw_content \in Texts :
                    LET done == ProcessCitations(raw_content, shared_context, index_available)
                    IN  IF done.ok
                        THEN /\ plan' = [plan EXCEPT ![idx].content = done.text,
                                                     ![idx].status = "completed"]
                             /\ shared_context' = UpdatedContext(shared_context, done)
                             /\ rewrites' = Append(rewrites, Rewrite(raw_content, TRUE))
                             \* line 149: content and status are written into copies
                             /\ prior_plan' = plan
                             /\ pc' = "writing_supervisor"
                        ELSE /\ pc' = "FAULT"
                             /\ rewrites' = Append(rewrites, Rewrite(raw_content, FALSE))
                             /\ UNCHANGED <<plan, shared_context, prior_plan>>
    /\ UNCHANGED <<raw_plan, overall_outline, current_plan_item_id, error_log,
                   final_answer, final_sources, updated_plan, index_available,
                   failures, result,
                   search_results,
                   invocation, index, iterations, tool_calls>>

WritingExecutor == ExecuteWritingTask(RunTexts)

\* agent_executor.ainvoke raised
WritingExecutorFault == Fault("writing_executor")

----------------------------------------------------------------------------
(* Writing executor, the run of the writer agent step by step *)

\* query_index_with_metadata_filter, line 172: the filter of the query engine
Filters(filter_values) == IF filter_values # <<>> THEN filter_values ELSE None

\* the documents a query engine with these filters draws from
Retrieved(docs, filters) ==
    IF filters = None THEN docs
    ELSE {d \in docs : \E k \in DOMAIN filters : d.research_task_id = filters[k]}

\* _create_rag_tool_for_writing: one call of rag_tool for the item
RagToolCall(item, docs, available) ==
    [filter_values |-> item.dependencies,
     filters |-> Filters(item.dependencies),
     \* line 166: without an index the query returns before it reads anything
     hits |-> IF available THEN Retrieved(docs, Filters(item.dependencies)) ELSE {}]

\* lines 94-144: up to agent_executor.ainvoke
WriterBegins ==
    /\ pc = "writing_executor"
    /\ Len(rewrites) < MaxWrites
    /\ LET idx == FindPlanItem(plan, current_plan_item_id)
       IN  IF ~Truthy(current_plan_item_id) \/ idx = 0
           THEN /\ pc' = "FAULT"
                /\ UNCHANGED <<agent_input, iterations, tool_calls>>
           ELSE /\ agent_input' = AgentInput(plan, idx, current_plan_item_id, overall_outline)
                /\ iterations' = 0
                /\ tool_calls' = <<>>
                /\ pc' = "writing_agent"
    /\ UNCHANGED <<raw_plan, plan, overall_outline, current_plan_item_id, error_log,
                   shared_context, final_answer, final_sources, updated_plan,
                   index_available, rewrites, failures, result, search_results,
                   prior_plan, invocation, index>>

\* one iteration of the agent in which the model asks for the tool, once or several
\* times in one answer
AgentCallsTool ==
    /\ pc = "writing_agent"
    /\ iterations < MaxIterations
    /\ \E n \in 1..MaxParallel :
        tool_calls' = tool_calls \o
            [k \in 1..n |->
                RagToolCall(plan[FindPlanItem(plan, current_plan_item_id)], index,
                            index_available)]
    /\ iterations' = iterations + 1
    /\ UNCHANGED <<pc, raw_plan, plan, overall_outline, current_plan_item_id, error_log,
                   shared_context, final_answer, final_sources, updated_plan,
                   index_available, rewrites, failures, result, search_results,
                   prior_plan, invocation, agent_input, index>>

\* lines 146-154: ainvoke returned raw_content, which is rewritten and stored
WriterReturns(raw_content) ==
    /\ pc = "writing_agent"
    /\ LET idx == FindPlanItem(plan, current_plan_item_id)
           done == ProcessCitations(raw_content, shared_context, index_available)
       IN  IF done.ok
           THEN /\ plan' = [plan EXCEPT ![idx].content = done.text,
                                        ![idx].status = "completed"]
                /\ shared_context' = UpdatedContext(shared_context, done)
                /\ rewrites' = Append(rewrites, Rewrite(raw_content, TRUE))
                /\ prior_plan' = plan
                /\ pc' = "writing_supervisor"
           ELSE /\ pc' = "FAULT"
                /\ rewrites' = Append(rewrites, Rewrite(raw_content, FALSE))
                /\ UNCHANGED <<plan, shared_context, prior_plan>>
    /\ UNCHANGED <<raw_plan, overall_outline, current_plan_item_id, error_log,
                   final_answer, final_sources, updated_plan, index_available,
                   failures, result, search_results, invocation, agent_input,
                   index, iterations, tool_calls>>

\* the model answered with the chapter before the iterations ran out
AgentFinishes ==
    /\ iterations < MaxIterations
    /\ WriterReturns(<<"text">>)

\* the iterations ran out: the executor stops the agent and returns its stop notice
AgentStopped ==
    /\ iterations = MaxIterations
    /\ WriterReturns(<<"agent_stopped">>)

----------------------------------------------------------------------------
(* Node 5: final assembler, and the return to the caller *)

\* sorted(citation_map.values(), key=lambda c: c['number'])
RECURSIVE SortedByNumber(_)
SortedByNumber(entries) ==
    IF entries = {} THEN <<>>
    ELSE LET least == CHOOSE e \in entries : \A f \in entries : e.number <= f.number
         IN  <<least>> \o SortedByNumber(entries \ {least})

CitationValues(cites) == {cites[u] : u \in DOMAIN cites}

ReferenceLine(c) == <<"[", ToString(c.number), "]", c.title, "Available:">> \o c.url

RECURSIVE ReferenceLines(_)
ReferenceLines(sorted) ==
    IF sorted = <<>> THEN <<>>
    ELSE <<"newline">> \o ReferenceLine(Head(sorted)) \o ReferenceLines(Tail(sorted))

\* an assembler that lists the entries from the highest number down
MutAssembled(context) ==
    LET sorted == SortedByNumber(CitationValues(context.citations))
        reversed == [k \in DOMAIN sorted |-> sorted[Len(sorted) + 1 - k]]
    IN  IF context.citations = <<>>
        THEN [final_answer |-> EmptyText, final_sources |-> <<>>]
        ELSE [final_answer |-> <<"references_heading">> \o ReferenceLines(reversed),
              final_sources |-> reversed]

\* an assembler that puts the written chapters before the references
MutAssembledChapters(context) ==
    LET sorted == SortedByNumber(CitationValues(context.citations))
        chapters == Join([k \in DOMAIN WritingTasks(plan) |-> WritingTasks(plan)[k].content],
                         <<"newline">>)
    IN  IF context.citations = <<>>
        THEN [final_answer |-> chapters, final_sources |-> <<>>]
        ELSE [final_answer |-> chapters \o <<"references_heading">> \o ReferenceLines(sorted),
              final_sources |-> sorted]

\* lines 160-174: what final_assembler returns for a shared context
Assembled(context) ==
    LET sorted == SortedByNumber(CitationValues(context.citations))
    IN  IF context.citations = <<>>
        THEN [final_answer |-> EmptyText, final_sources |-> <<>>]
        ELSE [final_answer |-> <<"references_heading">> \o ReferenceLines(sorted),
              final_sources |-> sorted]

FinalAssembler ==
    /\ pc = "final_assembler"
    /\ final_answer' = Assembled(shared_context).final_answer
    /\ final_sources' = Assembled(shared_context).final_sources
    /\ pc' = "END"
    /\ UNCHANGED <<raw_plan, plan, overall_outline, current_plan_item_id, error_log,
                   shared_context, updated_plan, index_available, rewrites,
                   failures, result, search_results, prior_plan,
                   invocation, agent_input,
                   index, iterations, tool_calls>>

MainFault == ErrorEntry("main", "exception")

\* an except branch that hands the errors of the run to the caller
MutFaultResult(log) ==
    [returned |-> TRUE, success |-> FALSE, report |-> EmptyText, sources |-> <<>>,
     outline |-> EmptyText, plan |-> <<>>, errors |-> Append(log, MainFault)]

\* lines 76-86: what the caller receives when app.ainvoke raised
FaultResult(log) ==
    [returned |-> TRUE, success |-> FALSE, report |-> EmptyText, sources |-> <<>>,
     outline |-> EmptyText, plan |-> <<>>, errors |-> <<MainFault>>]

\* search_and_generate_report, lines 64-86
AgentReturns ==
    /\ pc \in {"END", "FAULT"}
    /\ result' = IF pc = "END"
                 THEN [returned |-> TRUE, success |-> TRUE, report |-> final_answer,
                       sources |-> final_sources, outline |-> overall_outline,
                       plan |-> plan, errors |-> error_log]
                 ELSE FaultResult(error_log)
    /\ pc' = "RETURNED"
    /\ UNCHANGED <<raw_plan, plan, overall_outline, current_plan_item_id, error_log,
                   shared_context, final_answer, final_sources, updated_plan,
                   index_available, rewrites, failures,
                   search_results, prior_plan,
                   invocation, agent_input,
                   index, iterations, tool_calls>>

----------------------------------------------------------------------------
(* Specifications *)

Next ==
    \/ Planner
    \/ PlannerBadJson
    \/ PlannerFault
    \/ ResearchSupervisor
    \/ ResearchExecutorBegin
    \/ ResearchExecutorSucceeds
    \/ ResearchExecutorFails
    \/ PlanSummarizer
    \/ PlanSummarizerFault
    \/ GenerateOverallSummary
    \/ GenerateOverallSummaryFault
    \/ WritingSupervisor
    \/ WritingExecutor
    \/ WritingExecutorFault
    \/ FinalAssembler
    \/ AgentReturns

\* one run of the controller
Spec == Init /\ [][Next]_vars

\* plans of a research item r1 and a chapter w1 that depends on it
ReturnsRawPlans ==
    SeqsUpTo(RawItem({"r1"}, {"RESEARCH"}, {<<>>})
                 \cup RawItem({"w1"}, {"WRITING"}, {<<"r1">>}), RunMaxItems)

PlannerPlansReport == CallPlanner(ReturnsRawPlans)

NextReturns ==
    \/ PlannerPlansReport
    \/ PlannerBadJson
    \/ PlannerFault
    \/ ResearchSupervisor
    \/ ResearchExecutorBegin
    \/ ResearchExecutorSucceeds
    \/ ResearchExecutorFails
    \/ PlanSummarizer
    \/ PlanSummarizerFault
    \/ GenerateOverallSummary
    \/ GenerateOverallSummaryFault
    \/ WritingSupervisor
    \/ WritingExecutor
    \/ WritingExecutorFault
    \/ FinalAssembler
    \/ AgentReturns

\* one run in which every call returns or raises: the graph runs the node it is at,
\* and search_and_generate_report returns once the graph has ended or raised
SpecReturns == Init /\ [][NextReturns]_vars /\ WF_vars(NextReturns)

\* plans of research items alone
ResearchRawPlans == SeqsUpTo(RawItem(ItemIds, {"RESEARCH"}, {<<>>}), RunMaxItems)

PlannerPlansResearch == CallPlanner(ResearchRawPlans)

ResearchFailsAgain == ResearchFails(MaxRetries)

NextRetry ==
    \/ PlannerPlansResearch
    \/ ResearchSupervisor
    \/ ResearchExecutorBegin
    \/ ResearchExecutorSucceeds
    \/ ResearchFailsAgain
    \/ PlanSummarizer
    \/ GenerateOverallSummary
    \/ WritingSupervisor
    \/ FinalAssembler
    \/ AgentReturns

\* runs of research items alone, with up to MaxRetries failed attempts
SpecRetry == Init /\ [][NextRetry]_vars

\* an agent whose next call starts with the registry the last call left
MutAgentInvokedAgain ==
    /\ pc = "RETURNED"
    /\ invocation < MaxRuns
    /\ invocation' = invocation + 1
    /\ pc' = "planner"
    /\ raw_plan' = <<>>
    /\ plan' = <<>>
    /\ overall_outline' = NoneText
    /\ current_plan_item_id' = None
    /\ error_log' = <<>>
    /\ final_answer' = EmptyText
    /\ final_sources' = <<>>
    /\ updated_plan' = <<>>
    /\ rewrites' = <<>>
    /\ failures' = 0
    /\ search_results' = <<>>
    /\ prior_plan' = <<>>
    /\ agent_input' = NoInput
    /\ iterations' = 0
    /\ tool_calls' = <<>>
    /\ UNCHANGED <<shared_context, index_available, result, index>>

\* search_and_generate_report is called again on the same agent: lines 45-61 build
\* initial_state anew; the index service and the result the caller holds stay
AgentInvokedAgain ==
    /\ pc = "RETURNED"
    /\ invocation < MaxRuns
    /\ invocation' = invocation + 1
    /\ pc' = "planner"
    /\ raw_plan' = <<>>
    /\ plan' = <<>>
    /\ overall_outline' = NoneText
    /\ current_plan_item_id' = None
    /\ error_log' = <<>>
    /\ shared_context' = EmptyRegistry
    /\ final_answer' = EmptyText
    /\ final_sources' = <<>>
    /\ updated_plan' = <<>>
    /\ rewrites' = <<>>
    /\ failures' = 0
    /\ search_results' = <<>>
    /\ prior_plan' = <<>>
    /\ agent_input' = NoInput
    /\ iterations' = 0
    /\ tool_calls' = <<>>
    /\ UNCHANGED <<index_available, result, index>>

\* the ids an executor can be entered with: none, empty, one of no item, or an item's
EnteredIds == {None, "", "ghost", "r1", "w1"}

\* an executor called on a state of its caller's making: a validated plan of pending
\* items and any current item id
InitExecutors ==
    /\ pc \in {"research_executor", "writing_executor"}
    /\ raw_plan \in RunRawPlans
    /\ plan = ValidateAndCorrectPlan(CompleteItemData(raw_plan)).plan
    /\ overall_outline = <<"outline_of_planner">>
    /\ current_plan_item_id \in EnteredIds
    /\ error_log = <<>>
    /\ shared_context = EmptyRegistry
    /\ final_answer = EmptyText
    /\ final_sources = <<>>
    /\ updated_plan = <<>>
    /\ index_available \in BOOLEAN
    /\ rewrites = <<>>
    /\ failures = 0
    /\ result = NoResult
    /\ search_results = <<>>
    /\ prior_plan = <<>>
    /\ invocation = 1
    /\ agent_input = NoInput
    /\ index = {}
    /\ iterations = 0
    /\ tool_calls = <<>>

\* what a search can return: up to MaxRecords records, with and without a snippet
ExecSearchResults ==
    SeqsUpTo({SearchRecord("a", "snippet_a"), SearchRecord("a", ""),
              SearchRecord("b", "snippet_b"), SearchRecord("b", "")}, MaxRecords)

ResearchStores == ResearchSucceeds(ExecSearchResults)

NextExecutors ==
    \/ ResearchExecutorBegin
    \/ ResearchStores
    \/ ResearchExecutorFails
    \/ WritingExecutor
    \/ WritingExecutorFault

\* one call of execute_research_task or of execute_writing_task
SpecExecutors == InitExecutors /\ [][NextExecutors]_vars

\* the planner and its validator on the plans of ValRawPlans
PlannerValidates == CallPlanner(ValRawPlans)

NextValidate == PlannerValidates

\* the planner on the plans of ValRawPlans, and nothing after it
SpecValidate == Init /\ [][NextValidate]_vars

\* chapter texts for the citation registry: up to MaxPieces pieces, each a whole
\* marker, an opened marker, a closing bracket or a blank
CitePieces == { Marker("a"), Marker("b"), <<"[ref:", "http://">>, <<"]">>, <<" ">> }

RECURSIVE Flatten(_)
Flatten(pieces) == IF pieces = <<>> THEN <<>> ELSE Head(pieces) \o Flatten(Tail(pieces))

CiteTexts == {Flatten(ps) : ps \in SeqsUpTo(CitePieces, MaxPieces)}

\* plans of one or two chapters and no research
CiteRawPlans ==
    { <<[item_id |-> "w1", task_type |-> "WRITING", dependencies |-> <<>>]>>,
      <<[item_id |-> "w1", task_type |-> "WRITING", dependencies |-> <<>>],
        [item_id |-> "w2", task_type |-> "WRITING", dependencies |-> <<>>]>> }

PlannerPlansChapters == CallPlanner(CiteRawPlans)

\* texts of a second chapter
LaterTexts ==
    { <<"text">>, Marker("a") \o Marker("b"), Marker("b") \o Marker("a") \o Marker("b"),
      <<"[ref:", "http://">> \o Marker("a") \o <<"]">> }

WriterCites == ExecuteWritingTask(IF rewrites = <<>> THEN CiteTexts ELSE LaterTexts)

NextCite ==
    \/ PlannerPlansChapters
    \/ ResearchSupervisor
    \/ PlanSummarizer
    \/ GenerateOverallSummary
    \/ WritingSupervisor
    \/ WriterCites
    \/ FinalAssembler

\* runs of one or two chapters whose texts are drawn from CiteTexts
SpecCite == Init /\ [][NextCite]_vars

\* chapter texts of the calls on one agent
RunsTexts == { Marker("a"), Marker("b"), Marker("b") \o Marker("a") }

WriterCitesInCall == ExecuteWritingTask(RunsTexts)

NextRuns ==
    \/ PlannerPlansChapters
    \/ ResearchSupervisor
    \/ PlanSummarizer
    \/ GenerateOverallSummary
    \/ WritingSupervisor
    \/ WriterCitesInCall
    \/ FinalAssembler
    \/ AgentReturns
    \/ AgentInvokedAgain

\* up to MaxRuns calls on one agent object, each a run of one or two chapters
SpecRuns == Init /\ [][NextRuns]_vars

\* plans for the summarizer: research items named r1, r2 or not named, and a chapter
\* w1 that depends on none, on one or on two of them
SumRawItems ==
    RawItem({"", "r1", "r2"}, {"RESEARCH"}, {<<>>})
        \cup RawItem({"w1"}, {"WRITING"}, {<<>>, <<"">>, <<"r1">>, <<"r2", "r1">>})

SumRawPlans == SeqsUpTo(SumRawItems, SumMaxItems)

PlannerPlansSummaries == CallPlanner(SumRawPlans)

NextSummarize ==
    \/ PlannerPlansSummaries
    \/ ResearchSupervisor
    \/ ResearchExecutorBegin
    \/ ResearchExecutorSucceeds
    \/ PlanSummarizer
    \/ PlanSummarizerFault
    \/ GenerateOverallSummary

\* a run up to the overall summary
SpecSummarize == Init /\ [][NextSummarize]_vars

\* plans for the retrieval tool: a chapter that depends on nothing, on a research
\* item, on an id of no item, or on two research items; and two chapters
AgentRawPlans ==
    { << [item_id |-> "r1", task_type |-> "RESEARCH", dependencies |-> <<>>],
         [item_id |-> "r2", task_type |-> "RESEARCH", dependencies |-> <<>>],
         [item_id |-> "w1", task_type |-> "WRITING", dependencies |-> d] >> :
        d \in {<<>>, <<"r1">>, <<"ghost">>, <<"r2", "r1">>} }
    \cup
    { << [item_id |-> "r1", task_type |-> "RESEARCH", dependencies |-> <<>>],
         [item_id |-> "r2", task_type |-> "RESEARCH", dependencies |-> <<>>],
         [item_id |-> "w1", task_type |-> "WRITING", dependencies |-> <<"r1">>],
         [item_id |-> "w2", task_type |-> "WRITING", dependencies |-> <<"ghost">>] >> }

PlannerPlansRetrieval == CallPlanner(AgentRawPlans)

NextAgent ==
    \/ PlannerPlansRetrieval
    \/ ResearchSupervisor
    \/ ResearchExecutorBegin
    \/ ResearchExecutorSucceeds
    \/ PlanSummarizer
    \/ GenerateOverallSummary
    \/ WritingSupervisor
    \/ WriterBegins
    \/ AgentCallsTool
    \/ AgentFinishes
    \/ AgentStopped
    \/ FinalAssembler
    \/ AgentReturns

\* a run with the iterations of the writer agent
SpecAgent == Init /\ [][NextAgent]_vars

----------------------------------------------------------------------------
(* Properties *)

NamesResearchItem(p, id) ==
    \E j \in DOMAIN p : p[j].task_type = "RESEARCH" /\ p[j].item_id = id

DependencyInvariant(p, P) ==
    \A i \in DOMAIN p :
        p[i].task_type = "WRITING" =>
            \A k \in DOMAIN p[i].dependencies :
                /\ NamesResearchItem(p, p[i].dependencies[k])
                /\ NamesResearchItem(P, p[i].dependencies[k])

\* C1: once the planner node has validated the plan P it was given, every id in the
\* dependencies of every WRITING item names a RESEARCH item of the plan and of P, in
\* the plan of every later state of the run and in the working copy of an executor.
C1_DependencyInvariant ==
    pc # "planner" =>
        /\ DependencyInvariant(plan, raw_plan)
        /\ DependencyInvariant(updated_plan, raw_plan)

\* a finished run whose plan had a dependency on a missing id dropped and one kept
C1_Witness ==
    /\ pc = "END"
    /\ \E i \in DOMAIN plan :
        /\ plan[i].task_type = "WRITING"
        /\ raw_plan[i].dependencies = <<"r1", "ghost">>
        /\ plan[i].dependencies = <<"r1">>

\* C2: validating the plan the validator returned returns that plan and no error.
C2_ValidateIdempotent ==
    pc = "research_supervisor" =>
        ValidateAndCorrectPlan(plan) = [plan |-> plan, errors |-> <<>>]

\* a validated plan from which the validator dropped one dependency and kept another
C2_Witness ==
    /\ pc = "research_supervisor"
    /\ \E i \in DOMAIN plan :
        /\ Len(raw_plan[i].dependencies) = 2
        /\ Len(plan[i].dependencies) = 1

\* the errors list _validate_and_correct_plan returned, as call_planner logged it
ValidationErrors == IF error_log = <<>> THEN <<>> ELSE error_log[1].errors

RECURSIVE DroppedFrom(_, _)
DroppedFrom(P, i) ==
    IF i > Len(P) THEN <<>>
    ELSE (IF P[i].task_type = "WRITING"
          THEN SelectSeq(P[i].dependencies, LAMBDA d : ~NamesResearchItem(P, d))
          ELSE <<>>) \o DroppedFrom(P, i + 1)

GhostScenario ==
    << [item_id |-> "r1", task_type |-> "RESEARCH", dependencies |-> <<>>],
       [item_id |-> "w1", task_type |-> "WRITING", dependencies |-> <<"r1", "ghost">>] >>

\* C3: the validated plan has the items of the emitted plan in their order; a WRITING
\* item keeps the subsequence of its dependencies that name a RESEARCH item, every
\* other item keeps its dependencies; the errors name the dropped dependency
\* occurrences, one error each, in order; and [r1, w1 on r1 and ghost] leaves w1 with
\* [r1] and one error, naming ghost.
C3_ValidateKeepsResearchDeps ==
    pc = "research_supervisor" =>
        /\ Len(plan) = Len(raw_plan)
        /\ \A i \in DOMAIN plan :
            /\ plan[i].item_id = raw_plan[i].item_id
            /\ plan[i].task_type = raw_plan[i].task_type
            /\ plan[i].dependencies =
                   IF raw_plan[i].task_type = "WRITING"
                   THEN SelectSeq(raw_plan[i].dependencies,
                                  LAMBDA d : NamesResearchItem(raw_plan, d))
                   ELSE raw_plan[i].dependencies
        /\ [k \in DOMAIN ValidationErrors |-> ValidationErrors[k].dep]
               = DroppedFrom(raw_plan, 1)
        /\ raw_plan = GhostScenario =>
               /\ plan[2].dependencies = <<"r1">>
               /\ Len(ValidationErrors) = 1
               /\ ValidationErrors[1].dep = "ghost"

\* the scenario plan, validated
C3_Witness ==
    /\ pc = "research_supervisor"
    /\ raw_plan = GhostScenario
    /\ plan[2].dependencies = <<"r1">>
    /\ ValidationErrors # <<>>


----------------------------------------------------------------------------
(* Citation registry *)

\* the urls of the markers of a text, left to right (citation_pattern.findall)
RECURSIVE FindAll(_, _)
FindAll(text, i) ==
    IF i > Len(text) THEN <<>>
    ELSE IF MatchAt(text, i) = 0 THEN FindAll(text, i + 1)
    ELSE <<MatchedUrl(text, i)>> \o FindAll(text, i + MatchAt(text, i))

RECURSIVE FirstOccurrences(_, _)
FirstOccurrences(urls, seen) ==
    IF urls = <<>> THEN <<>>
    ELSE IF Head(urls) \in seen THEN FirstOccurrences(Tail(urls), seen)
    ELSE <<Head(urls)>> \o FirstOccurrences(Tail(urls), seen \cup {Head(urls)})

RECURSIVE UrlsOf(_)
UrlsOf(calls) ==
    IF calls = <<>> THEN <<>>
    ELSE (IF Head(calls).ok THEN FindAll(Head(calls).raw, 1) ELSE <<>>) \o UrlsOf(Tail(calls))

\* the urls cited by the chapters written so far, in order of first occurrence
CitedUrls == FirstOccurrences(UrlsOf(rewrites), {})

Registry == shared_context.citations

UrlA == <<"http://", "a">>

UrlB == <<"http://", "b">>

RegistryOneToOne ==
    \A u \in DOMAIN Registry :
        /\ Registry[u].url = u
        /\ \A v \in DOMAIN Registry : Registry[u].number = Registry[v].number => u = v

RegistryKeepsEntries ==
    \A u \in DOMAIN Registry :
        u \in DOMAIN shared_context'.citations /\ shared_context'.citations[u] = Registry[u]

\* C4: in every state of a run the registry gives each url one entry, under its own
\* url, and no two urls the same number; and no step of the run changes or removes an
\* entry the registry holds.
C4_RegistryOneToOneAndStable == []RegistryOneToOne /\ [][RegistryKeepsEntries]_vars

\* the second chapter cited a registered url and a new one
C4_Witness ==
    /\ Len(rewrites) = 2
    /\ rewrites[1] = Rewrite(Marker("a"), TRUE)
    /\ rewrites[2] = Rewrite(Marker("a") \o Marker("b"), TRUE)
    /\ DOMAIN Registry = {UrlA, UrlB}

\* C5: in every state the numbers of the registry are 1..n for its n urls, the
\* counter is n+1, and the url with number k is the k-th url in order of first
\* occurrence in the chapters written so far.
C5_DenseFirstOccurrenceNumbers ==
    LET n == Cardinality(DOMAIN Registry)
    IN  /\ {Registry[u].number : u \in DOMAIN Registry} = 1..n
        /\ shared_context.next_citation_number = n + 1
        /\ Len(CitedUrls) = n
        /\ \A k \in DOMAIN CitedUrls :
            CitedUrls[k] \in DOMAIN Registry /\ Registry[CitedUrls[k]].number = k

\* the first chapter cited b twice, the second cited b, then a, then b
C5_Witness ==
    /\ Len(rewrites) = 2
    /\ rewrites[1] = Rewrite(Marker("b") \o Marker("b"), TRUE)
    /\ rewrites[2] = Rewrite(Marker("b") \o Marker("a") \o Marker("b"), TRUE)
    /\ Registry[UrlB].number = 1
    /\ Registry[UrlA].number = 2
    /\ shared_context.next_citation_number = 3

ScenarioText == Marker("a") \o Marker("b") \o Marker("a")

\* C6: every call of the rewrite returns its text; the stored text of a written
\* chapter holds no marker; and a first chapter citing a, b, a is stored as the
\* citations 1, 2, 1 with a registry of two entries.
C6_RewriteReplacesEveryMarker ==
    /\ \A k \in DOMAIN rewrites : rewrites[k].ok
    /\ \A i \in DOMAIN plan :
        plan[i].task_type = "WRITING" /\ plan[i].status = "completed"
            => FindAll(plan[i].content, 1) = <<>>
    /\ (Len(rewrites) = 1 /\ rewrites[1].raw = ScenarioText) =>
        /\ plan[1].content = Citation(1, UrlA) \o Citation(2, UrlB) \o Citation(1, UrlA)
        /\ Cardinality(DOMAIN Registry) = 2

----------------------------------------------------------------------------
(* Orchestration *)

Resolved(item) == item.status \in {"completed", "failed"}

InProgress(p) == {i \in DOMAIN p : p[i].status = "in_progress"}

ResearchPhase == {"research_supervisor", "research_executor", "research_search"}

AfterResearch ==
    {"plan_summarizer", "generate_overall_summary", "writing_supervisor",
     "writing_executor", "final_assembler", "END", "RETURNED"}

Nodes == {"planner", "FAULT"} \cup ResearchPhase \cup AfterResearch

\* C7: the item the research executor works on has every RESEARCH item before it in
\* the plan resolved, and the item the writing executor is entered for has every
\* WRITING item before it in the plan completed.
C7_PlanOrderWithinPhase ==
    /\ pc = "research_search" =>
        \A j \in 1..(InFlight - 1) :
            updated_plan[j].task_type = "RESEARCH" => Resolved(updated_plan[j])
    /\ (pc = "writing_executor" /\ FindPlanItem(plan, current_plan_item_id) # 0) =>
        \A j \in 1..(FindPlanItem(plan, current_plan_item_id) - 1) :
            plan[j].task_type = "WRITING" => Resolved(plan[j])

\* the second research item of the plan is in flight, the first is completed
C7_Witness ==
    /\ pc = "research_search"
    /\ InFlight = 2
    /\ updated_plan[1].task_type = "RESEARCH"
    /\ updated_plan[2].task_type = "RESEARCH"
    /\ updated_plan[1].status = "completed"

\* C8: in every state after the research phase every RESEARCH item of the plan is
\* resolved, and in every state of the research phase no chapter has been written.
C8_PhasesNeverOverlap ==
    /\ pc \in AfterResearch =>
        \A i \in DOMAIN plan : plan[i].task_type = "RESEARCH" => Resolved(plan[i])
    /\ pc \in ResearchPhase => rewrites = <<>>

\* C9: in every state at or after the assembler every WRITING item of the plan is
\* completed.
C9_AssembleAfterAllWriting ==
    pc \in {"final_assembler", "END", "RETURNED"} =>
        \A i \in DOMAIN plan : plan[i].task_type = "WRITING" => plan[i].status = "completed"

\* C10: in every state the controller is at one node, the executor's copy of the plan
\* has at most one item in progress, and the plan held by the state, like the plan
\* returned, has none.
C10_OneTaskInFlight ==
    /\ pc \in Nodes
    /\ Cardinality(InProgress(updated_plan)) <= 1
    /\ InProgress(plan) = {}
    /\ InProgress(result.plan) = {}

\* a research task of a plan of two is in flight
C10_Witness ==
    /\ pc = "research_search"
    /\ Len(updated_plan) = 2
    /\ InProgress(updated_plan) = {InFlight}
    /\ plan[InFlight].status = "pending"

----------------------------------------------------------------------------
(* Failures *)

IsPrefix(s, t) == Len(s) <= Len(t) /\ SubSeq(t, 1, Len(s)) = s

ResearchFailure == ErrorEntry("execute_research_task", "exception")

\* a step in which the research executor's except branch ran
ResearchFailed == failures' = failures + 1

\* C11: a step in which a research task fails leaves the item failed, its log
\* extended and ending with the error line, its content and every other item as they
\* were, the run-level error list longer by one entry, and the controller at the
\* research supervisor.
C11_ResearchFailureContained ==
    [][ResearchFailed =>
        LET i == InFlight
        IN  /\ plan'[i].status = "failed"
            /\ IsPrefix(plan[i].execution_log, plan'[i].execution_log)
            /\ Len(plan'[i].execution_log) > Len(plan[i].execution_log)
            /\ plan'[i].execution_log[Len(plan'[i].execution_log)] = "research_error"
            /\ plan'[i].content = plan[i].content
            /\ \A j \in DOMAIN plan : j # i => plan'[j] = plan[j]
            /\ DOMAIN plan' = DOMAIN plan
            /\ error_log' = Append(error_log, ResearchFailure)
            /\ pc' = "research_supervisor"]_vars

\* an item that was completed with content has failed on a later attempt and keeps
\* that content
C11_Witness ==
    /\ pc = "research_supervisor"
    /\ failures = 1
    /\ \E i \in DOMAIN plan :
        /\ plan[i].status = "failed"
        /\ plan[i].content # EmptyText
        /\ plan[i].execution_log[Len(plan[i].execution_log)] = "research_error"
    /\ error_log[Len(error_log)] = ResearchFailure

Faulted == pc = "FAULT"

FaultReturned == result.returned /\ ~result.success

\* C12: a run that has faulted runs no node of the graph again and its caller is
\* handed a result; that result reports success=false with an empty report, no
\* sources, an empty plan and the fault as its only error.
C12_FaultReturnsBareResult ==
    /\ [](FaultReturned =>
            /\ result.report = EmptyText
            /\ result.sources = <<>>
            /\ result.plan = <<>>
            /\ result.errors = <<MainFault>>)
    /\ [][Faulted => pc' = "RETURNED" /\ FaultReturned']_vars
    /\ (Faulted ~> FaultReturned)

\* a writing task faulted after a research failure was logged and items were
\* planned; the caller sees neither
C12_Witness ==
    /\ FaultReturned
    /\ pc = "RETURNED"
    /\ ResearchFailure \in {error_log[k] : k \in DOMAIN error_log}
    /\ plan # <<>>
    /\ rewrites # <<>>

\* the planner took its JSONDecodeError branch
Unparsable == error_log # <<>> /\ error_log[1] = CannotParsePlan

\* the edges of the graph a run with nothing to execute follows
AfterNode(node) ==
    CASE node = "research_supervisor" -> "plan_summarizer"
      [] node = "plan_summarizer" -> "generate_overall_summary"
      [] node = "generate_overall_summary" -> "writing_supervisor"
      [] node = "writing_supervisor" -> "final_assembler"
      [] node = "final_assembler" -> "END"
      [] node = "END" -> "RETURNED"
      [] OTHER -> "FAULT"

MissingCurrentItem ==
    ~Truthy(current_plan_item_id) \/ FindPlanItem(plan, current_plan_item_id) = 0

\* C14: an executor entered without a current item, or with an id of no plan item,
\* ends in a fault and adds nothing to the run-level error list.
C14_MissingItemIsHardFault ==
    [][(pc \in {"research_executor", "writing_executor"} /\ MissingCurrentItem)
        => (pc' = "FAULT" /\ error_log' = error_log)]_vars

----------------------------------------------------------------------------
(* Research content *)

\* the blocks of the records that have a snippet, in order, with the delimiter
\* between them
RECURSIVE BlocksOf(_)
BlocksOf(records) ==
    IF records = <<>> THEN <<>>
    ELSE IF Head(records).snippet = "" THEN BlocksOf(Tail(records))
    ELSE LET rest == BlocksOf(Tail(records))
         IN  SnippetBlock(Head(records)) \o (IF rest = <<>> THEN <<>> ELSE Delimiter \o rest)

\* a step in which the research executor stored the records of its search
ResearchStored ==
    pc = "research_search" /\ pc' = "research_supervisor" /\ failures' = failures

\* C15: a research task whose search returned leaves its item completed, with the
\* sentinel as content when no record has a snippet, and otherwise with the blocks of
\* exactly the records that have one, in search order, joined by the delimiter.
C15_ResearchContent ==
    [][ResearchStored =>
        LET i == InFlight
            records == search_results'
        IN  /\ plan'[i].status = "completed"
            /\ plan'[i].content =
                   IF \A k \in DOMAIN records : records[k].snippet = ""
                   THEN NoInformation
                   ELSE BlocksOf(records)]_vars

\* a search returned b then a, both with snippets, and the item holds both blocks
C15_Witness ==
    /\ pc = "research_supervisor"
    /\ search_results = <<SearchRecord("b", "snippet_b"), SearchRecord("a", "snippet_a")>>
    /\ \E i \in DOMAIN plan :
        /\ plan[i].status = "completed"
        /\ plan[i].content =
               SnippetBlock(search_results[1]) \o Delimiter \o SnippetBlock(search_results[2])

----------------------------------------------------------------------------
(* Retries *)

SomeItemFailed == \E i \in DOMAIN plan : plan[i].status = "failed"

----------------------------------------------------------------------------
(* ResultAssembler *)

EntryNumbered(k) == CHOOSE e \in CitationValues(Registry) : e.number = k

RECURSIVE ReferencesFrom(_, _)
ReferencesFrom(k, n) ==
    IF k > n THEN <<>>
    ELSE <<"newline">> \o ReferenceLine(EntryNumbered(k)) \o ReferencesFrom(k + 1, n)

\* C17: the assembler leaves the registry and the plan as they are; once it has run,
\* the source list holds every registry entry once, the k-th being the entry numbered
\* k, the reference text has one line per entry in that order, and assembling the
\* registry again gives the same text and the same list.
C17_AssemblerSortedAndIdempotent ==
    /\ [][pc = "final_assembler" => (shared_context' = shared_context /\ plan' = plan)]_vars
    /\ [](pc = "END" =>
            LET n == Cardinality(DOMAIN Registry)
            IN  /\ Len(final_sources) = n
                /\ \A k \in 1..n : final_sources[k].number = k
                /\ {final_sources[k] : k \in 1..n} = CitationValues(Registry)
                /\ final_answer = IF n = 0 THEN EmptyText
                                  ELSE <<"references_heading">> \o ReferencesFrom(1, n)
                /\ Assembled(shared_context).final_answer = final_answer
                /\ Assembled(shared_context).final_sources = final_sources)

\* two chapters were written, b was cited before a, and the references are assembled
C17_Witness ==
    /\ pc = "END"
    /\ Len(final_sources) = 2
    /\ final_sources[1].url = UrlB
    /\ final_sources[2].url = UrlA
    /\ Len(rewrites) = 2

----------------------------------------------------------------------------
(* Snapshots *)

\* a step of a node that returns a plan
ReturnsPlan ==
    /\ pc \in {"planner", "research_search", "plan_summarizer", "writing_executor"}
    /\ pc' # "FAULT"
    /\ ~(pc = "planner" /\ Unparsable')

\* the plan a node was handed, as it read then; for the planner, the items handed to
\* the validator
HandedPlan == IF pc = "planner" THEN CompleteItemData(raw_plan') ELSE plan

\* C18: after every step of a node that returns a plan, the plan it was handed reads
\* as it did before the step, in every field of every item.
C18_PlanCopyOnWrite == [][ReturnsPlan => prior_plan' = HandedPlan]_vars

----------------------------------------------------------------------------
(* Invocations *)

\* C19: every call starts at the planner with an empty plan, an empty error list and
\* an empty registry whose counter is 1, and in every state the numbers of the
\* registry are the positions of its urls in order of first citation in this call.
C19_RunStateIsFresh ==
    /\ [](pc = "planner" =>
            /\ plan = <<>>
            /\ error_log = <<>>
            /\ shared_context = EmptyRegistry)
    /\ [](/\ Len(CitedUrls) = Cardinality(DOMAIN Registry)
          /\ \A k \in DOMAIN CitedUrls :
                CitedUrls[k] \in DOMAIN Registry /\ Registry[CitedUrls[k]].number = k)

\* the first call returned a as source 1; the second call has cited b alone and has
\* numbered it 1
C19_Witness ==
    /\ invocation = 2
    /\ pc = "END"
    /\ result.success
    /\ Len(result.sources) = 1
    /\ result.sources[1].url = UrlA
    /\ DOMAIN Registry = {UrlB}
    /\ Registry[UrlB].number = 1

----------------------------------------------------------------------------
(* Dispatch and lookup *)

\* C20: the item the research executor works on is the first RESEARCH item of the
\* plan that is not completed, and the item the writing executor is entered for is
\* the first WRITING item of the plan that is not completed.
C20_ExecutedItemIsFirstOpen ==
    /\ pc = "research_search" => InFlight = NextTask(plan, "RESEARCH")
    /\ pc = "writing_executor" =>
        FindPlanItem(plan, current_plan_item_id) = NextTask(plan, "WRITING")

----------------------------------------------------------------------------
(* The controller path *)

\* the node a position of the run belongs to: the research executor is in its node
\* while it awaits the search
NodeOf(position) == IF position = "research_search" THEN "research_executor" ELSE position

\* add_edge and add_conditional_edges of _build_graph
Edges ==
    { <<"planner", "research_supervisor">>,
      <<"research_supervisor", "research_executor">>,
      <<"research_supervisor", "plan_summarizer">>,
      <<"research_executor", "research_supervisor">>,
      <<"plan_summarizer", "generate_overall_summary">>,
      <<"generate_overall_summary", "writing_supervisor">>,
      <<"writing_supervisor", "writing_executor">>,
      <<"writing_supervisor", "final_assembler">>,
      <<"writing_executor", "writing_supervisor">>,
      <<"final_assembler", "END">> }

\* the place of a node on the path; the two loops have one place each
Stage(node) ==
    CASE node = "planner" -> 0
      [] node \in {"research_supervisor", "research_executor"} -> 1
      [] node = "plan_summarizer" -> 2
      [] node = "generate_overall_summary" -> 3
      [] node \in {"writing_supervisor", "writing_executor"} -> 4
      [] node = "final_assembler" -> 5
      [] node = "END" -> 6
      [] OTHER -> 7

EnteredOnce == {"planner", "plan_summarizer", "generate_overall_summary", "final_assembler"}

\* the plan items an executor step has changed
ItemsChanged == {i \in DOMAIN plan : i \notin DOMAIN plan' \/ plan'[i] # plan[i]}

\* C21: a run moves along the edges planner, research supervisor and executor in
\* alternation, plan summarizer, overall summary, writing supervisor and executor in
\* alternation, assembler, end; the only other ways out of a node are the exception
\* that ends the run and the return to the caller. The run never moves back on the
\* path, so planner, plan summarizer, overall summary and assembler are entered at
\* most once, and an executor that returns to its supervisor has worked on exactly
\* one item of the plan, the one its current id names: the research executor has
\* changed that item alone, the writing executor has generated one chapter and has
\* changed no other item.
C21_ControllerPath ==
    [][LET from == NodeOf(pc)
           to == NodeOf(pc')
       IN  from # to =>
            /\ \/ <<from, to>> \in Edges
               \/ from \notin {"END", "FAULT", "RETURNED"} /\ to = "FAULT"
               \/ from \in {"END", "FAULT"} /\ to = "RETURNED"
            /\ Stage(from) <= Stage(to)
            /\ to \in EnteredOnce => Stage(from) < Stage(to)
            /\ (from \in {"research_executor", "writing_executor"} /\ to # "FAULT") =>
                /\ Len(plan') = Len(plan)
                /\ ItemsChanged \subseteq {FindPlanItem(plan, current_plan_item_id)}
                /\ from = "research_executor" => Cardinality(ItemsChanged) = 1
                /\ from = "writing_executor" => Len(rewrites') = Len(rewrites) + 1]_vars

\* a run that went through both loops and the assembler and returned
C21_Witness ==
    /\ pc = "RETURNED"
    /\ result.success
    /\ \E i \in DOMAIN plan : plan[i].task_type = "RESEARCH" /\ plan[i].status = "completed"
    /\ \E i \in DOMAIN plan : plan[i].task_type = "WRITING" /\ plan[i].status = "completed"
    /\ final_answer # EmptyText

----------------------------------------------------------------------------
(* The order of the plan *)

\* what identifies the items of a plan and their order
Shape(p) == [i \in DOMAIN p |-> <<p[i].item_id, p[i].task_type, p[i].dependencies>>]

\* the plan the planner node stored for the planner output of this run
ValidatedPlan == ValidateAndCorrectPlan(CompleteItemData(raw_plan)).plan

\* C22: once the planner node has run, the ids, types and dependencies of the plan
\* items, in order, are those of the validated plan; no step after planning adds,
\* removes or reorders an item, and the plan handed to the caller has that order.
C22_PlanOrderPreserved ==
    /\ [](pc # "planner" => Shape(plan) = Shape(ValidatedPlan))
    /\ [][pc # "planner" => Shape(plan') = Shape(plan)]_vars
    /\ [](result.returned /\ result.success => Shape(result.plan) = Shape(ValidatedPlan))

\* a chapter listed before the research it depends on, both executed, the chapter
\* with the dependency list the validator left
C22_Witness ==
    /\ pc = "RETURNED"
    /\ result.success
    /\ Len(plan) = 2
    /\ plan[1].task_type = "WRITING" /\ plan[1].status = "completed"
    /\ plan[2].task_type = "RESEARCH" /\ plan[2].status = "completed"
    /\ raw_plan[1].dependencies = <<"r1", "ghost">>
    /\ plan[1].dependencies = <<"r1">>
    /\ plan[2].item_id = "r1"

----------------------------------------------------------------------------
(* Staged summaries *)

\* the RESEARCH item a dependency id names, 0 if none
ResearchItemOf(p, id) ==
    LET hits == {i \in DOMAIN p : p[i].item_id = id /\ p[i].task_type = "RESEARCH"}
    IN  IF hits = {} THEN 0 ELSE CHOOSE i \in hits : \A j \in hits : i <= j

\* the raw content the research of a dependency stored
RawContentOf(p, id) == IF ResearchItemOf(p, id) = 0 THEN EmptyText ELSE p[ResearchItemOf(p, id)].content

\* no dependency of the item at i has produced content
NoMaterial(p, i) == \A k \in DOMAIN p[i].dependencies : RawContentOf(p, p[i].dependencies[k]) = EmptyText

\* the summary built from the raw content of the dependencies, in their order
SummaryOfDependencies(p, i) ==
    Llm("summary",
        p[i].description
            \o Join([k \in DOMAIN p[i].dependencies |->
                        <<"research_task">> \o DescriptionOf(p, p[i].dependencies[k])
                            \o <<":">> \o RawContentOf(p, p[i].dependencies[k])],
                    <<"nn">>))

\* the plan summarizer has just run
Summarized == pc = "plan_summarizer" /\ pc' = "generate_overall_summary"

\* C23: the plan summarizer stores, for every WRITING item, the no-material stub
\* and makes no generation call when the item has no dependency or every dependency
\* has empty content, and otherwise the summary generated from the raw content of
\* its RESEARCH dependencies in dependency order.
C23_StagedSummary ==
    [][Summarized =>
        \A i \in DOMAIN plan : plan[i].task_type = "WRITING" =>
            plan'[i].content = IF NoMaterial(plan, i)
                               THEN NoMaterialStub(plan[i])
                               ELSE SummaryOfDependencies(plan, i)]_vars

\* the part of C23 that the code keeps: an item without dependencies gets the stub,
\* an item with a dependency that has content gets the summary of its dependencies
C23_StagedSummaryWithMaterial ==
    [][Summarized =>
        \A i \in DOMAIN plan : plan[i].task_type = "WRITING" =>
            /\ plan[i].dependencies = <<>> => plan'[i].content = NoMaterialStub(plan[i])
            /\ ~NoMaterial(plan, i) => plan'[i].content = SummaryOfDependencies(plan, i)]_vars

----------------------------------------------------------------------------
(* The outline *)

\* the outline the planner node stores: the one of its answer, or "" when the answer
\* could not be parsed
PlanningOutlines == { <<"outline_of_planner">>, EmptyText }

\* the overall summary node has just run
OverallSummarized == pc = "generate_overall_summary" /\ pc' = "writing_supervisor"

\* C24: whatever the plan, with or without WRITING items, the overall summary node
\* replaces the outline by one generated from the staged summaries of all WRITING
\* items, so that neither a writing task nor the caller sees the outline of the
\* planner.
C24_OutlineRefreshed ==
    /\ [][OverallSummarized =>
            overall_outline' = Llm("overall", ChapterSummaries(plan))]_vars
    /\ [](pc = "writing_executor" => overall_outline \notin PlanningOutlines)
    /\ [](result.returned /\ result.success => result.outline \notin PlanningOutlines)

\* the part of C24 that the code keeps: with a WRITING item in the plan the outline
\* is replaced, and no writing task sees the outline of the planner
C24_OutlineRefreshedWithChapters ==
    /\ [][OverallSummarized /\ WritingTasks(plan) # <<>> =>
            overall_outline' = Llm("overall", ChapterSummaries(plan))]_vars
    /\ [](pc = "writing_executor" => overall_outline \notin PlanningOutlines)

----------------------------------------------------------------------------
(* The input of the writer agent *)

\* the writing executor has made a generation call and the call has returned
WriterGenerated == pc = "writing_executor" /\ Len(rewrites') = Len(rewrites) + 1

\* a staged summary: the stub or the answer of the summarizer
Staged(text) == text # <<>> /\ Head(text) \in {"summary", "no_relevant_material_for"}

\* the finished text of a chapter: no staged summary, and no marker left in it for
\* the rewrite to match
Finished(text) == ~Staged(text) /\ FindAll(text, 1) = <<>>

\* C25: the previous-chapter value given to the writer agent is the first-chapter
\* placeholder exactly when the task is the first WRITING item of the plan; for a
\* later WRITING item it is the content of the WRITING item just before it in the
\* plan, which is completed and holds its finished, rewritten chapter text, not its
\* staged summary.
C25_PreviousChapter ==
    [][WriterGenerated =>
        LET tasks == WritingTasks(plan)
            k == CurrentWritingTaskIndex(plan, current_plan_item_id)
            previous == agent_input'.previous_chapter_content
        IN  /\ k >= 1
            /\ (previous = FirstChapterPlaceholder) <=> (k = 1)
            /\ k > 1 =>
                /\ tasks[k - 1].status = "completed"
                /\ previous = tasks[k - 1].content
                /\ Finished(previous)]_vars

\* the second chapter was generated from the rewritten text of the first
C25_Witness ==
    /\ Len(rewrites) = 2
    /\ Len(plan) = 2
    /\ \A i \in DOMAIN plan : plan[i].task_type = "WRITING" /\ plan[i].status = "completed"
    /\ rewrites[1].raw # <<"text">>
    /\ agent_input # NoInput
    /\ agent_input.previous_chapter_content = plan[1].content
    /\ agent_input.task_description = plan[2].description

\* C26: the chapter digest given to the writer agent is built from the content of
\* every WRITING item of the plan, and for the first writing task and for every later
\* one that content is the staged summary the plan summarizer produced for the item.
C26_DigestOfStagedSummaries ==
    [][WriterGenerated =>
        /\ agent_input'.all_chapter_summaries = ChapterSummaries(plan)
        /\ \A k \in DOMAIN WritingTasks(plan) : Staged(WritingTasks(plan)[k].content)]_vars

\* the part of C26 that the code keeps: the digest holds the staged summary of every
\* WRITING item that has not been written yet
C26_DigestOfOpenChapters ==
    [][WriterGenerated =>
        /\ agent_input'.all_chapter_summaries = ChapterSummaries(plan)
        /\ \A k \in DOMAIN WritingTasks(plan) :
            WritingTasks(plan)[k].status # "completed" =>
                Staged(WritingTasks(plan)[k].content)]_vars

----------------------------------------------------------------------------
(* Retrieval *)

\* the research executor has stored the records of a search
ResearchIndexed == pc = "research_search" /\ pc' = "research_supervisor" /\ failures' = failures

\* the item the writer agent is writing
Written == plan[FindPlanItem(plan, current_plan_item_id)]

TagsOf(deps) == {deps[k] : k \in DOMAIN deps}

\* C27: every record a research task hands to the index becomes a document tagged
\* with the item_id of that task; every query the writer agent makes while it writes
\* an item asks for the documents tagged with one of the item's dependencies and reads
\* no other document; the query is without a filter, over the whole index, exactly
\* when the item has no dependencies, also when it has none because the validator
\* removed them.
C27_ScopedRetrieval ==
    /\ [][ResearchIndexed =>
            LET id == updated_plan[InFlight].item_id
            IN  /\ \A d \in index' \ index : d.research_task_id = id
                /\ index_available =>
                    \A k \in DOMAIN search_results' :
                        \E d \in index' :
                            d.url = search_results'[k].url /\ d.research_task_id = id]_vars
    /\ [](pc = "writing_agent" =>
            \A k \in DOMAIN tool_calls :
                /\ (tool_calls[k].filters = None) <=> (Written.dependencies = <<>>)
                /\ tool_calls[k].filters # None =>
                    /\ TagsOf(tool_calls[k].filters) = TagsOf(Written.dependencies)
                    /\ \A d \in tool_calls[k].hits :
                        d.research_task_id \in TagsOf(Written.dependencies)
                    /\ index_available =>
                        \A d \in index :
                            d.research_task_id \in TagsOf(Written.dependencies) =>
                                d \in tool_calls[k].hits
                /\ (tool_calls[k].filters = None /\ index_available) =>
                    tool_calls[k].hits = index)

\* the second chapter named a dependency that is no item: the validator removed it
\* and the query of the writer reads the documents of both research items
C27_Witness ==
    /\ pc = "writing_agent"
    /\ current_plan_item_id = "w2"
    /\ raw_plan[4].dependencies = <<"ghost">>
    /\ Written.dependencies = <<>>
    /\ tool_calls # <<>>
    /\ tool_calls[1].filters = None
    /\ \E d \in tool_calls[1].hits : d.research_task_id = "r1"
    /\ \E d \in tool_calls[1].hits : d.research_task_id = "r2"

\* a query for a chapter that depends on r1 reads the documents of r1 and not those
\* of r2
C27_ScopedWitness ==
    /\ pc = "writing_agent"
    /\ Written.dependencies = <<"r1">>
    /\ tool_calls # <<>>
    /\ tool_calls[1].hits # {}
    /\ \E d \in index : d \notin tool_calls[1].hits

----------------------------------------------------------------------------
(* The bound on the writer agent *)

\* C28: while one chapter is generated the retrieval tool is called at most 7 times;
\* the count starts anew for every chapter, and once the bound is reached the next
\* step of the agent ends the generation of the chapter.
C28_ToolCallsBounded ==
    /\ [](Len(tool_calls) <= MaxIterations)
    /\ [][pc = "writing_executor" /\ pc' = "writing_agent" =>
            tool_calls' = <<>> /\ iterations' = 0]_vars
    /\ [][pc = "writing_agent" /\ iterations = MaxIterations =>
            pc' # "writing_agent"]_vars

\* the part of C28 that the code keeps: the iterations of the agent are at most 7 for
\* each chapter, and the generation ends once they are used up
C28_IterationsBounded ==
    /\ [](iterations <= MaxIterations /\ Len(tool_calls) <= MaxParallel * iterations)
    /\ [][pc = "writing_executor" /\ pc' = "writing_agent" =>
            tool_calls' = <<>> /\ iterations' = 0]_vars
    /\ [][pc = "writing_agent" /\ iterations = MaxIterations =>
            pc' # "writing_agent"]_vars

----------------------------------------------------------------------------
(* The title lookup *)

\* the title the registry entry of a new url is to carry
TitleFor(url, available) ==
    IF GetDocumentBySourceUrl(url, available).none
    THEN UnknownTitle
    ELSE GetDocumentBySourceUrl(url, available).metadata.title

\* the urls of a text that the registry does not hold yet
NewUrls(raw_content) ==
    {u \in {FindAll(raw_content, 1)[k] : k \in DOMAIN FindAll(raw_content, 1)} :
        u \notin DOMAIN Registry}

\* the rewrite of a generated chapter was called
RewriteCalled == pc = "writing_executor" /\ Len(rewrites') = Len(rewrites) + 1

\* C29: the rewrite of a chapter never fails on the title lookup of a new url: with a
\* record from the index service the entry carries the title of the record, without
\* one the fallback title, and either way the url is numbered and the chapter is
\* stored as completed.
C29_TitleLookupNeverFails ==
    [][RewriteCalled =>
        LET raw_content == rewrites'[Len(rewrites')].raw
            idx == FindPlanItem(plan, current_plan_item_id)
        IN  /\ rewrites'[Len(rewrites')].ok
            /\ pc' = "writing_supervisor"
            /\ plan'[idx].status = "completed"
            /\ \A u \in NewUrls(raw_content) :
                /\ u \in DOMAIN shared_context'.citations
                /\ shared_context'.citations[u].number >= 1
                /\ shared_context'.citations[u].title = TitleFor(u, index_available)]_vars

\* the part of C29 that the code keeps: without an index the entry carries the
\* fallback title, the url is numbered and the chapter is stored as completed
C29_FallbackTitle ==
    [][RewriteCalled /\ ~index_available =>
        LET raw_content == rewrites'[Len(rewrites')].raw
            idx == FindPlanItem(plan, current_plan_item_id)
        IN  /\ rewrites'[Len(rewrites')].ok
            /\ pc' = "writing_supervisor"
            /\ plan'[idx].status = "completed"
            /\ \A u \in NewUrls(raw_content) :
                /\ u \in DOMAIN shared_context'.citations
                /\ shared_context'.citations[u].number >= 1
                /\ shared_context'.citations[u].title = UnknownTitle]_vars

----------------------------------------------------------------------------
(* The report *)

\* part occurs in text as a run of consecutive tokens
Contains(text, part) ==
    \E i \in 1..(Len(text) - Len(part) + 1) : SubSeq(text, i, i + Len(part) - 1) = part

C30_ReferencesWitness ==
    /\ result.returned
    /\ result.success
    /\ Len(result.sources) = 2
    /\ \E i \in DOMAIN result.plan :
        result.plan[i].task_type = "WRITING" /\ result.plan[i].status = "completed"

----------------------------------------------------------------------------
(* C31: the run-level error list *)

\* the entries one step of the controller is meant to add: one per failed research
\* attempt, one per refused dispatch, one per planning pass that could not be parsed
\* or that corrected dependencies
EntriesOfStep ==
    LET v == ValidateAndCorrectPlan(CompleteItemData(raw_plan'))
    IN  IF pc = "planner" /\ pc' = "research_supervisor"
        THEN IF overall_outline' = EmptyText THEN <<CannotParsePlan>>
             ELSE IF v.errors # <<>> THEN <<ValidatorEntry(v.errors)>>
             ELSE <<>>
        ELSE IF pc = "research_search" /\ pc' = "research_supervisor"
                /\ \E i \in DOMAIN plan' :
                       plan'[i].status = "failed" /\ plan'[i] # plan[i]
        THEN <<ErrorEntry("execute_research_task", "exception")>>
        ELSE IF pc = "research_executor" /\ pc' = "research_supervisor"
        THEN <<error_log'[Len(error_log')]>>
        ELSE <<>>

\* C31: the error list is append-only and grows by exactly one entry per event: every
\* step keeps the entries it found, a failed research attempt adds one entry, a
\* planning pass that corrected dependencies adds one validator entry holding the
\* messages, and no other step adds an entry.
C31_ErrorListOneEntryPerEvent ==
    [][error_log' = error_log \o EntriesOfStep]_vars

----------------------------------------------------------------------------
(* C32: the statuses in use *)

\* the items of the plan of the state and of the copy an executor works on
ItemsInUse ==
    {plan[i] : i \in DOMAIN plan} \cup {updated_plan[i] : i \in DOMAIN updated_plan}

\* C32: the ready status and attempt_count are never used: no item has status ready,
\* every item's attempt_count is 0, a RESEARCH item's status is pending, in_progress,
\* completed or failed, and a WRITING item's status is pending or completed.
C32_StatusesInUse ==
    \A item \in ItemsInUse :
        /\ item.status # "ready"
        /\ item.attempt_count = 0
        /\ item.task_type = "RESEARCH" =>
               item.status \in {"pending", "in_progress", "completed", "failed"}
        /\ item.task_type = "WRITING" => item.status \in {"pending", "completed"}

----------------------------------------------------------------------------
(* C33: termination *)

\* the run without a failing planning, summarization or generation call; a research
\* attempt may fail, at most MaxFailures times in all
NextTerminates ==
    \/ Planner
    \/ ResearchSupervisor
    \/ ResearchExecutorBegin
    \/ ResearchExecutorSucceeds
    \/ ResearchExecutorFails
    \/ PlanSummarizer
    \/ GenerateOverallSummary
    \/ WritingSupervisor
    \/ WritingExecutor
    \/ FinalAssembler
    \/ AgentReturns

\* the graph runs the node it is at until it ends, and the caller then returns
SpecTerminates == Init /\ [][NextTerminates]_vars /\ WF_vars(NextTerminates)

\* how many lines `line` the execution log holds
Lines(log, line) == Cardinality({k \in DOMAIN log : log[k] = line})

\* the run has returned from END with each RESEARCH item executed once more than it
\* failed, and with one execution of the writer per WRITING item, all completed
DoneExecutedOnce ==
    /\ result.returned
    /\ result.success
    /\ \A i \in DOMAIN plan :
        plan[i].task_type = "RESEARCH" =>
            Lines(plan[i].execution_log, "research_done") = 1
    /\ \A i \in DOMAIN plan :
        plan[i].task_type = "WRITING" => plan[i].status = "completed"
    /\ Len(rewrites) = Len(WritingTasks(plan))

\* C33: when every research item succeeds after finitely many attempts and no planning,
\* summarization or generation call fails, the run eventually reaches DONE, having
\* executed each WRITING item exactly once and each RESEARCH item exactly once plus
\* once per failed attempt.
C33_RunTerminates == <>DoneExecutedOnce

----------------------------------------------------------------------------
(* C34: the plan of a successful return *)

\* C34: whenever the invocation returns success, every RESEARCH or WRITING item of the
\* returned plan has status completed, also for plans with items whose item_id is
\* missing or empty.
C34_SuccessMeansAllCompleted ==
    (result.returned /\ result.success) =>
        \A i \in DOMAIN result.plan :
            result.plan[i].task_type \in {"RESEARCH", "WRITING"} =>
                result.plan[i].status = "completed"

----------------------------------------------------------------------------
(* C35: completed items *)

\* the item an executor has been sent to work on is a completed one
ExecutesCompleted ==
    /\ pc \in {"research_executor", "research_search", "writing_executor"}
    /\ Truthy(current_plan_item_id)
    /\ FindPlanItem(plan, current_plan_item_id) # 0
    /\ plan[FindPlanItem(plan, current_plan_item_id)].status = "completed"

\* a completed item keeps its status and its content in the step
CompletedKept ==
    \A i \in DOMAIN plan :
        plan[i].status = "completed" =>
            /\ i \in DOMAIN plan'
            /\ plan'[i].status = "completed"
            /\ plan'[i].content = plan[i].content

\* C35: completed is absorbing: once an item has status completed it is never
\* dispatched or executed again, its status never changes, and its content (of a
\* RESEARCH item as of a WRITING item) never changes.
C35_CompletedIsAbsorbing == [](~ExecutesCompleted) /\ [][CompletedKept]_vars

----------------------------------------------------------------------------
(* C36: what a research execution changes *)

\* item `after` differs from item `before` in status, content and execution log at most
SameButResult(before, after) ==
    after = [before EXCEPT !.status = after.status,
                           !.content = after.content,
                           !.execution_log = after.execution_log]

\* the step changed the item `selected` in status, content and execution log at most,
\* and nothing else of the plan, the outline, the current item id and the registry
ResearchStepFrame(selected) ==
    /\ DOMAIN plan' = DOMAIN plan
    /\ \A i \in DOMAIN plan :
        IF i = selected THEN SameButResult(plan[i], plan'[i])
        ELSE plan'[i] = plan[i]
    /\ overall_outline' = overall_outline
    /\ current_plan_item_id' = current_plan_item_id
    /\ shared_context' = shared_context

\* C36: a step of the research executor, whether the search succeeds or fails, changes
\* only the status, content and execution log of the item the research supervisor
\* selected: every other item of the plan, the outline, the current item id and the
\* citation registry are unchanged.
C36_ResearchStepFrame ==
    [][(pc \in {"research_executor", "research_search"}) =>
           ResearchStepFrame(NextTask(plan, "RESEARCH"))]_vars

----------------------------------------------------------------------------
(* C37: what a writing execution changes *)

\* the WRITING items the current item id names
CurrentWritingItems ==
    {i \in DOMAIN plan :
        plan[i].task_type = "WRITING" /\ plan[i].item_id = current_plan_item_id}

\* the step changed a current WRITING item in content and status at most, added
\* entries to the registry at most, and changed nothing else of the plan, the outline
\* and the error list
WritingStepFrame ==
    /\ DOMAIN plan' = DOMAIN plan
    /\ \A i \in DOMAIN plan :
        IF i \in CurrentWritingItems
        THEN plan'[i] = [plan[i] EXCEPT !.content = plan'[i].content,
                                        !.status = plan'[i].status]
        ELSE plan'[i] = plan[i]
    /\ DOMAIN shared_context.citations \subseteq DOMAIN shared_context'.citations
    /\ \A url \in DOMAIN shared_context.citations :
        shared_context'.citations[url] = shared_context.citations[url]
    /\ overall_outline' = overall_outline
    /\ error_log' = error_log

\* C37: a step of the writing executor changes only the content and status of the
\* current WRITING item and the citation registry, by adding entries: every RESEARCH
\* item, every other WRITING item, the outline and the error list are unchanged; and
\* no step of another node changes the registry.
C37_WritingStepFrame ==
    [][IF pc = "writing_executor"
       THEN WritingStepFrame
       ELSE shared_context' = shared_context]_vars

----------------------------------------------------------------------------
(* C38: the rewrite applied to its own output *)

\* the writer of the second chapter hands back the text of the first chapter, which it
\* was given as previous_chapter_content
WriterRepeats ==
    ExecuteWritingTask(IF rewrites = <<>> THEN CiteTexts ELSE {plan[1].content})

NextRewrite ==
    \/ PlannerPlansChapters
    \/ ResearchSupervisor
    \/ PlanSummarizer
    \/ GenerateOverallSummary
    \/ WritingSupervisor
    \/ WriterRepeats
    \/ FinalAssembler

\* runs of one or two chapters in which the second chapter repeats the first
SpecRewrite == Init /\ [][NextRewrite]_vars

\* the step is a rewrite of a text that an earlier rewrite returned
RewritesOwnOutput ==
    /\ pc = "writing_executor"
    /\ Len(rewrites) = 1
    /\ Len(rewrites') = 2
    /\ rewrites'[2].raw = plan[1].content

\* C38: rewrite is idempotent on its own output: applied to a text it has already
\* rewritten it returns that text unchanged and leaves the registry and its
\* next-number counter unchanged.
C38_RewriteIdempotentOnOutput ==
    [][RewritesOwnOutput =>
        /\ rewrites'[2].ok
        /\ plan'[2].content = plan[1].content
        /\ shared_context' = shared_context]_vars

====
